---- MODULE Spec2Model ----
(***************************************************************************)
(* Model of libbeat/processors/dissect/delimiter.go: the delimiter chain   *)
(* used by the dissect processor.  A delimiter is one of zeroByte,         *)
(* fixedLengthByte or multiByte, all embedding baseDelimiter (needle,      *)
(* length, greedy, next).  Nodes live in an arena addressed by 1..NumNodes;*)
(* the Go nil pointer is Nil.  Strings are sequences of bytes.             *)
(***************************************************************************)
EXTENDS Integers, Sequences, FiniteSets

\* ---------------------------------------------------------------- bounds
NumNodes == 3       \* size of the arena: longest chain the driver builds
MaxFree == 2        \* nodes allocated under the free interleaving of operations
MaxNeedle == 2      \* longest literal of the node of a single lookup
MaxShort == 1       \* longest literal of a node that shares the arena with others
MaxHay == 3         \* longest haystack
MaxFixed == 1       \* largest width of a fixedLengthByte

Alphabet == {"a", "b"}
Nil == 0
Nodes == 1..NumNodes

BSeq(n) == UNION {[1..k -> Alphabet] : k \in 0..n}
Literals == BSeq(MaxNeedle)
\* The needles of one chain meet the same haystack: all short literals.
ChainLiterals == BSeq(MaxShort)
\* Under the free interleaving no operation relates the needles of two
\* nodes, and a lookup compares bytes for equality only, so it is unchanged
\* by renaming the bytes: a needle may be taken to start with "a".
FreeLiterals == {s \in ChainLiterals : s = <<>> \/ s[1] = "a"}
Haystacks == BSeq(MaxHay)
Offsets == (0 - 1)..(MaxHay + 1)

VARIABLES
    kind,       \* kind[n]: dynamic type of node n, "nil" while not allocated
    needle,     \* baseDelimiter.needle
    length,     \* baseDelimiter.length
    greedy,     \* baseDelimiter.greedy
    next,       \* baseDelimiter.next (a node or Nil)
    origin,     \* how node n was constructed and from which argument
    res,        \* the last IndexOf call: receiver, arguments and outcome
    pc,         \* position of the driver that builds and walks a chain
    haystack,   \* the line the driver dissects
    cursor,     \* the driver's offset into haystack
    cur,        \* the driver's current node
    visited     \* nodes the driver's walk has visited, in order

vars == <<kind, needle, length, greedy, next, origin, res, pc, haystack, cursor, cur, visited>>

\* ------------------------------------------------- outcome of a Go call
\* A call either returns an int or panics (runtime error: slice bounds out
\* of range).
Ret(v) == [panic |-> FALSE, val |-> v]
Panic == [panic |-> TRUE, val |-> 0]

NoOrigin == [by |-> "none", needle |-> <<>>, length |-> 0]
NoCall == [op |-> "none", node |-> Nil, haystack |-> <<>>, offset |-> 0, out |-> Ret(0)]

Allocated == {n \in Nodes : kind[n] # "nil"}
NumAllocated == Cardinality(Allocated)

\* ------------------------------------------------------------ strings
\* haystack[offset:] for 0 <= offset <= len(haystack)
SliceFrom(s, offset) == SubSeq(s, offset + 1, Len(s))

\* strings.Index(s, substr): index of the first instance of substr in s,
\* or -1; scanned left to right.
RECURSIVE IndexFrom(_, _, _)
IndexFrom(s, substr, i) ==
    IF i + Len(substr) > Len(s) THEN 0 - 1
    ELSE IF SubSeq(s, i + 1, i + Len(substr)) = substr THEN i
    ELSE IndexFrom(s, substr, i + 1)

strings_Index(s, substr) == IndexFrom(s, substr, 0)

\* ------------------------------------------------- baseDelimiter methods
baseDelimiter_IndexOf_NoOffset(b, h, offset) == Ret(length[b])

baseDelimiter_IndexOf_NoLength(b, h, offset) == Ret(offset)

baseDelimiter_IndexOf(b, h, offset) == Ret(offset + length[b])

baseDelimiter_Len(b) == length[b]

baseDelimiter_Delimiter(b) == needle[b]

baseDelimiter_IsGreedy(b) == greedy[b]

baseDelimiter_MarkGreedy_Toggle(b) == greedy' = [greedy EXCEPT ![b] = ~greedy[b]]

baseDelimiter_MarkGreedy(b) == greedy' = [greedy EXCEPT ![b] = TRUE]

baseDelimiter_Next_Skip(b) == IF next[b] = Nil THEN Nil ELSE next[next[b]]

baseDelimiter_Next(b) == next[b]

baseDelimiter_SetNext_Self(b, d) == next' = [next EXCEPT ![b] = b]

baseDelimiter_SetNext(b, d) == next' = [next EXCEPT ![b] = d]

\* ----------------------------------------------------- multiByte methods
\* haystack[offset:] panics unless 0 <= offset <= len(haystack).
multiByte_IndexOf_Relative(m, h, offset) ==
    IF offset < 0 \/ offset > Len(h) THEN Panic
    ELSE LET i == strings_Index(SliceFrom(h, offset), needle[m])
         IN  IF i # 0 - 1 THEN Ret(i) ELSE Ret(0 - 1)

multiByte_IndexOf_Clamp(m, h, offset) ==
    LET o == IF offset < 0 THEN 0 ELSE IF offset > Len(h) THEN Len(h) ELSE offset
        i == strings_Index(SliceFrom(h, o), needle[m])
    IN  IF i # 0 - 1 THEN Ret(i + o) ELSE Ret(0 - 1)

multiByte_IndexOf_End(m, h, offset) ==
    IF offset < 0 \/ offset > Len(h) THEN Panic
    ELSE LET i == strings_Index(SliceFrom(h, offset), needle[m])
         IN  IF i # 0 - 1 THEN Ret(i + offset + Len(needle[m])) ELSE Ret(0 - 1)

multiByte_IndexOf(m, h, offset) ==
    IF offset < 0 \/ offset > Len(h) THEN Panic
    ELSE LET i == strings_Index(SliceFrom(h, offset), needle[m])
         IN  IF i # 0 - 1 THEN Ret(i + offset) ELSE Ret(0 - 1)

multiByte_Len_Field(m) == length[m]

multiByte_Len(m) == Len(needle[m])

\* ------------------------------------------ the delimiter interface
\* Method dispatch: multiByte overrides IndexOf and Len, the other kinds
\* use the promoted baseDelimiter methods.
delimiter_IndexOf(d, h, offset) ==
    IF kind[d] = "multiByte" THEN multiByte_IndexOf(d, h, offset)
    ELSE baseDelimiter_IndexOf(d, h, offset)

delimiter_Len(d) ==
    IF kind[d] = "multiByte" THEN multiByte_Len(d) ELSE baseDelimiter_Len(d)

\* String(): the debugging text, as the tuple of its parts.
delimiter_String(d) ==
    IF kind[d] = "zeroByte" THEN <<"delimiter: zerobyte">>
    ELSE IF kind[d] = "fixedLengthByte"
         THEN <<"delimiter: fixedlengthbyte (len: ", length[d], ")">>
    ELSE <<"delimiter: multibyte (match: '", needle[d], "', len: ", multiByte_Len(d), ")">>

\* --------------------------------------------------------- construction
\* The fields of a freshly allocated node n of kind k with the given needle
\* and length; greedy and next take their zero values.
Construct(n, k, nd, ln, how) ==
    /\ kind' = [kind EXCEPT ![n] = k]
    /\ needle' = [needle EXCEPT ![n] = nd]
    /\ length' = [length EXCEPT ![n] = ln]
    /\ greedy' = [greedy EXCEPT ![n] = FALSE]
    /\ next' = [next EXCEPT ![n] = Nil]
    /\ origin' = [origin EXCEPT ![n] = how]

newDelimiter_ShortIsZero(n, lit) ==
    IF Len(lit) <= 1
    THEN Construct(n, "zeroByte", <<>>, 0, [by |-> "newDelimiter", needle |-> lit, length |-> 0])
    ELSE Construct(n, "multiByte", lit, 0, [by |-> "newDelimiter", needle |-> lit, length |-> 0])

newDelimiter(n, lit) ==
    IF Len(lit) = 0
    THEN Construct(n, "zeroByte", <<>>, 0, [by |-> "newDelimiter", needle |-> lit, length |-> 0])
    ELSE Construct(n, "multiByte", lit, 0, [by |-> "newDelimiter", needle |-> lit, length |-> 0])

\* &fixedLengthByte{baseDelimiter{length: l}}, built directly by the driver
newFixedLengthByte(n, l) ==
    Construct(n, "fixedLengthByte", <<>>, l, [by |-> "literal", needle |-> <<>>, length |-> l])

\* ------------------------------------------------------------------ Init
Init ==
    /\ kind = [n \in Nodes |-> "nil"]
    /\ needle = [n \in Nodes |-> <<>>]
    /\ length = [n \in Nodes |-> 0]
    /\ greedy = [n \in Nodes |-> FALSE]
    /\ next = [n \in Nodes |-> Nil]
    /\ origin = [n \in Nodes |-> NoOrigin]
    /\ res = NoCall
    /\ pc = "build"
    /\ haystack = <<>>
    /\ cursor = 0
    /\ cur = Nil
    /\ visited = <<>>

\* ------------------------------------ operations, in any order (Spec)
NewDelimiter(lit) ==
    /\ NumAllocated < MaxFree
    /\ newDelimiter(NumAllocated + 1, lit)
    /\ UNCHANGED <<res, pc, haystack, cursor, cur, visited>>

NewFixedLengthByte(l) ==
    /\ NumAllocated < MaxFree
    /\ newFixedLengthByte(NumAllocated + 1, l)
    /\ UNCHANGED <<res, pc, haystack, cursor, cur, visited>>

MarkGreedy(n) ==
    /\ kind[n] # "nil"
    /\ baseDelimiter_MarkGreedy(n)
    /\ UNCHANGED <<kind, needle, length, next, origin, res, pc, haystack, cursor, cur, visited>>

SetNext(n, d) ==
    /\ kind[n] # "nil"
    /\ IF d = Nil THEN TRUE ELSE kind[d] # "nil"
    /\ baseDelimiter_SetNext(n, d)
    /\ UNCHANGED <<kind, needle, length, greedy, origin, res, pc, haystack, cursor, cur, visited>>

Next ==
    \/ \E lit \in FreeLiterals : NewDelimiter(lit)
    \/ \E l \in 0..MaxFixed : NewFixedLengthByte(l)
    \/ \E n \in Nodes : MarkGreedy(n)
    \/ \E n \in Nodes, d \in Nodes \cup {Nil} : SetNext(n, d)

Spec == Init /\ [][Next]_vars

\* ------------------------- lookups on constructed nodes (SpecLookup)
\* The arguments of the lookups, haystack and offset (held in cursor), are
\* drawn at the start; offsets outside 0..len(haystack) are included.
InitLookup ==
    /\ kind = [n \in Nodes |-> "nil"]
    /\ needle = [n \in Nodes |-> <<>>]
    /\ length = [n \in Nodes |-> 0]
    /\ greedy = [n \in Nodes |-> FALSE]
    /\ next = [n \in Nodes |-> Nil]
    /\ origin = [n \in Nodes |-> NoOrigin]
    /\ res = NoCall
    /\ pc = "build"
    /\ haystack \in Haystacks
    /\ cursor \in Offsets
    /\ cur = Nil
    /\ visited = <<>>

\* One node is constructed and looked up.
LkNewDelimiter(lit) ==
    /\ Allocated = {}
    /\ newDelimiter(1, lit)
    /\ UNCHANGED <<res, pc, haystack, cursor, cur, visited>>

LkNewFixedLengthByte(l) ==
    /\ Allocated = {}
    /\ newFixedLengthByte(1, l)
    /\ UNCHANGED <<res, pc, haystack, cursor, cur, visited>>

IndexOf(n) ==
    /\ kind[n] # "nil"
    /\ res' = [op |-> "IndexOf", node |-> n, haystack |-> haystack, offset |-> cursor,
               out |-> delimiter_IndexOf(n, haystack, cursor)]
    /\ UNCHANGED <<kind, needle, length, greedy, next, origin, pc, haystack, cursor, cur, visited>>

NextLookup ==
    \/ \E lit \in Literals : LkNewDelimiter(lit)
    \/ \E l \in 0..MaxFixed : LkNewFixedLengthByte(l)
    \/ \E n \in Nodes : IndexOf(n)

SpecLookup == InitLookup /\ [][NextLookup]_vars

\* --------------------- the driver: build a chain, then walk it (SpecDriver)
\* pc = "build": allocate the nodes of the chain, in chain order.
DrvNewDelimiter(lit) ==
    /\ pc = "build"
    /\ NumAllocated < NumNodes
    /\ newDelimiter(NumAllocated + 1, lit)
    /\ UNCHANGED <<res, pc, haystack, cursor, cur, visited>>

DrvStartLink ==
    /\ pc = "build"
    /\ NumAllocated >= 1
    /\ pc' = IF NumAllocated = 1 THEN "ready" ELSE "link"
    /\ cur' = 1
    /\ UNCHANGED <<kind, needle, length, greedy, next, origin, res, haystack, cursor, visited>>

\* pc = "link": d_i.SetNext(d_(i+1)) for each i < n; the last link stays nil.
DrvLink ==
    /\ pc = "link"
    /\ baseDelimiter_SetNext(cur, cur + 1)
    /\ cur' = cur + 1
    /\ pc' = IF cur + 1 = NumAllocated THEN "ready" ELSE "link"
    /\ UNCHANGED <<kind, needle, length, greedy, origin, res, haystack, cursor, visited>>

\* A traversal that starts at d1 and follows Next() until it is nil.
DrvStartTraverse ==
    /\ pc = "ready"
    /\ pc' = "traverse"
    /\ cur' = 1
    /\ visited' = <<1>>
    /\ UNCHANGED <<kind, needle, length, greedy, next, origin, res, haystack, cursor>>

DrvTraverseStep ==
    /\ pc = "traverse"
    /\ Len(visited) <= NumNodes
    /\ LET nx == baseDelimiter_Next(cur)
       IN  IF nx = Nil
           THEN /\ pc' = "traversed"
                /\ UNCHANGED <<cur, visited>>
           ELSE /\ pc' = "traverse"
                /\ cur' = nx
                /\ visited' = Append(visited, nx)
    /\ UNCHANGED <<kind, needle, length, greedy, next, origin, res, haystack, cursor>>

\* A dissect of line h: look each delimiter up from the cursor, move the
\* cursor past the match, stop on -1.
DrvStartDissect(h) ==
    /\ pc = "ready"
    /\ pc' = "dissect"
    /\ haystack' = h
    /\ cursor' = 0
    /\ cur' = 1
    /\ visited' = <<1>>
    /\ UNCHANGED <<kind, needle, length, greedy, next, origin, res>>

DrvDissectStep ==
    /\ pc = "dissect"
    /\ Len(visited) <= NumNodes
    /\ LET r == delimiter_IndexOf(cur, haystack, cursor)
           nx == baseDelimiter_Next(cur)
       IN  /\ res' = [op |-> "IndexOf", node |-> cur, haystack |-> haystack,
                      offset |-> cursor, out |-> r]
           /\ IF r.panic
              THEN /\ pc' = "panic"
                   /\ UNCHANGED <<cursor, cur, visited>>
              ELSE IF r.val = 0 - 1
              THEN /\ pc' = "notfound"
                   /\ UNCHANGED <<cursor, cur, visited>>
              ELSE /\ cursor' = r.val + delimiter_Len(cur)
                   /\ IF nx = Nil
                      THEN /\ pc' = "dissected"
                           /\ UNCHANGED <<cur, visited>>
                      ELSE /\ pc' = "dissect"
                           /\ cur' = nx
                           /\ visited' = Append(visited, nx)
    /\ UNCHANGED <<kind, needle, length, greedy, next, origin, haystack>>

NextDriver ==
    \/ \E lit \in ChainLiterals : DrvNewDelimiter(lit)
    \/ DrvStartLink
    \/ DrvLink
    \/ DrvStartTraverse
    \/ DrvTraverseStep
    \/ \E h \in Haystacks : DrvStartDissect(h)
    \/ DrvDissectStep

SpecDriver == Init /\ [][NextDriver]_vars

\* ============================================================ properties
ValidOffset(h, o) == 0 <= o /\ o <= Len(h)

\* the indexes i >= o at which n occurs in h: h[i..i+len(n)) == n
Occurrences(h, n, o) ==
    {i \in o..(Len(h) - Len(n)) : \A j \in 1..Len(n) : h[i + j] = n[j]}

LookupOf(k) == res.op = "IndexOf" /\ kind[res.node] = k

\* C1: a multiByte with a non-empty needle, looked up from an offset in
\* 0..len(H), returns the smallest index >= offset where the needle occurs
\* in H, and -1 when it does not occur from the offset on.
C1_SubstringIndexOf ==
    (LookupOf("multiByte") /\ needle[res.node] # <<>> /\ ValidOffset(res.haystack, res.offset))
    => LET occ == Occurrences(res.haystack, needle[res.node], res.offset)
       IN  /\ ~res.out.panic
           /\ IF occ = {}
              THEN res.out.val = 0 - 1
              ELSE res.out.val \in occ /\ \A i \in occ : res.out.val <= i

C1_Witness ==
    /\ LookupOf("multiByte")
    /\ Len(needle[res.node]) = 2
    /\ res.offset > 0
    /\ ~res.out.panic
    /\ res.out.val >= res.offset
    /\ Occurrences(res.haystack, needle[res.node], 0) # Occurrences(res.haystack, needle[res.node], res.offset)

\* C2 (as stated): an offset outside 0..len(H) makes IndexOf of every kind
\* fail; it never returns a position.
C2_OutOfRangeFailsForAllKinds ==
    (res.op = "IndexOf" /\ ~ValidOffset(res.haystack, res.offset)) => res.out.panic

\* C2 (amended): an offset outside 0..len(H) makes IndexOf fail exactly for
\* a multiByte; a zeroByte or fixedLengthByte returns offset + length.
C2_OutOfRangeFailsForMultiByteOnly ==
    (res.op = "IndexOf" /\ ~ValidOffset(res.haystack, res.offset))
    => IF kind[res.node] = "multiByte"
       THEN res.out.panic
       ELSE res.out = Ret(res.offset + length[res.node])

C2_Witness ==
    /\ LookupOf("multiByte")
    /\ res.offset > Len(res.haystack)
    /\ res.out.panic

\* C3: a zeroByte returns the offset unchanged for every haystack and every
\* offset in 0..len(H), has Len() = 0 and Delimiter() = "", whatever
\* MarkGreedy and SetNext calls were made.
C3_AnchorIsIdentity ==
    \A n \in Allocated :
        kind[n] = "zeroByte"
        => /\ delimiter_Len(n) = 0
           /\ baseDelimiter_Delimiter(n) = <<>>
           /\ \A h \in Haystacks : \A o \in 0..Len(h) : delimiter_IndexOf(n, h, o) = Ret(o)

C3_Witness ==
    \E n \in Allocated :
        /\ kind[n] = "zeroByte"
        /\ greedy[n]
        /\ next[n] # Nil
        /\ delimiter_IndexOf(n, <<"a", "b">>, 2) = Ret(2)

\* C4: a fixedLengthByte of width L returns offset + L for every offset in
\* 0..len(H), also beyond the end of H, never -1, and Len() = L.
C4_FixedLengthIsArithmetic ==
    /\ \A n \in Allocated :
           kind[n] = "fixedLengthByte" => delimiter_Len(n) = origin[n].length
    /\ (LookupOf("fixedLengthByte") /\ ValidOffset(res.haystack, res.offset))
       => /\ res.out = Ret(res.offset + origin[res.node].length)
          /\ res.out.val # 0 - 1

C4_Witness ==
    /\ LookupOf("fixedLengthByte")
    /\ ValidOffset(res.haystack, res.offset)
    /\ origin[res.node].length > 0
    /\ res.out.val > Len(res.haystack)

\* C5: newDelimiter gives a zeroByte exactly for the empty literal and a
\* multiByte with that needle otherwise, never a fixedLengthByte; two nodes
\* made from the same literal have the same kind and agree on Len,
\* Delimiter and IndexOf (on the haystack at hand, from every offset in it).
FromFactory(n) == origin[n].by = "newDelimiter"

C5_FactorySelectsKind ==
    /\ \A n \in Allocated :
           FromFactory(n)
           => /\ kind[n] = "zeroByte" <=> origin[n].needle = <<>>
              /\ kind[n] = "multiByte" <=> origin[n].needle # <<>>
              /\ baseDelimiter_Delimiter(n) = origin[n].needle
    /\ \A n1, n2 \in Allocated :
           (FromFactory(n1) /\ FromFactory(n2) /\ origin[n1].needle = origin[n2].needle)
           => /\ kind[n1] = kind[n2]
              /\ delimiter_Len(n1) = delimiter_Len(n2)
              /\ baseDelimiter_Delimiter(n1) = baseDelimiter_Delimiter(n2)
              /\ \A o \in 0..Len(haystack) :
                     delimiter_IndexOf(n1, haystack, o) = delimiter_IndexOf(n2, haystack, o)

C5_Witness ==
    \E n1, n2 \in Allocated :
        /\ n1 # n2
        /\ FromFactory(n1) /\ FromFactory(n2)
        /\ origin[n1].needle = <<"a">>
        /\ origin[n2].needle = <<"a">>
        /\ haystack = <<"b", "a">>
        /\ delimiter_IndexOf(n1, haystack, 0) = Ret(1)
        /\ delimiter_IndexOf(n2, haystack, 0) = Ret(1)

\* C6: a new node is not greedy, MarkGreedy makes it greedy, and no
\* operation makes a greedy node not greedy.
Fresh(n) == kind[n] = "nil" /\ kind'[n] # "nil"

C6_GreedyIsOneWay ==
    [][\A n \in Nodes :
          /\ Fresh(n) => ~baseDelimiter_IsGreedy(n)'
          /\ MarkGreedy(n) => baseDelimiter_IsGreedy(n)'
          /\ baseDelimiter_IsGreedy(n) => baseDelimiter_IsGreedy(n)']_vars

C6_Witness ==
    \E n, m \in Allocated : greedy[n] /\ ~greedy[m] /\ next[m] = n

\* C7: after SetNext(A, B), Next(A) = B (nil included); a new node has no
\* next; SetNext changes nothing but the link of A.
C7_SetNextRoundTrips ==
    [][/\ \A n \in Nodes : Fresh(n) => baseDelimiter_Next(n)' = Nil
       /\ \A a \in Nodes : \A b \in Nodes \cup {Nil} :
              SetNext(a, b)
              => /\ baseDelimiter_Next(a)' = b
                 /\ \A m \in Nodes \ {a} : next'[m] = next[m]
                 /\ greedy' = greedy /\ needle' = needle /\ length' = length /\ kind' = kind]_vars

C7_Witness ==
    \E a, b \in Allocated : a # b /\ next[a] = b /\ next[b] = Nil /\ greedy[a]

\* C8: the traversal of a chain d1..dn linked by di.SetNext(d(i+1)) visits
\* d1, d2, ..., dn in this order, no node twice, and ends at dn, whose next
\* is nil.
C8_TraversalVisitsChainInOrder ==
    /\ pc \in {"traverse", "traversed"}
       => /\ Len(visited) <= NumAllocated
          /\ \A i \in 1..Len(visited) : visited[i] = i
          /\ cur = Len(visited)
          /\ Len(visited) = NumAllocated => baseDelimiter_Next(cur) = Nil
    /\ pc = "traversed" => Len(visited) = NumAllocated

C8_Witness ==
    pc = "traversed" /\ visited = <<1, 2, 3>>

\* C10: a zeroByte or multiByte from the factory, looked up from an offset
\* o in 0..len(H), returns -1 or a position p with o <= p and
\* p + Len() <= len(H); a dissect over a chain of such nodes keeps the cursor
\* in 0..len(H) and never fails on an offset.
AllFromFactory == \A n \in Allocated : FromFactory(n)

C10_CursorStaysInRange ==
    (pc \in {"dissect", "dissected", "notfound", "panic"} /\ AllFromFactory)
    => /\ \A n \in Allocated : \A o \in 0..Len(haystack) :
              LET r == delimiter_IndexOf(n, haystack, o)
              IN  /\ ~r.panic
                  /\ r.val # 0 - 1 => (o <= r.val /\ r.val + delimiter_Len(n) <= Len(haystack))
       /\ 0 <= cursor /\ cursor <= Len(haystack)
       /\ pc # "panic"

C10_Witness ==
    /\ pc = "dissected"
    /\ AllFromFactory
    /\ Len(visited) = 3
    /\ kind[1] = "zeroByte" /\ kind[2] = "multiByte" /\ kind[3] = "multiByte"
    /\ cursor = Len(haystack)
    /\ res.offset > 0

\* C9: a multiByte made from literal N keeps Delimiter() = N and
\* Len() = len(N), although its length field stays 0.
C9_NeedleAndWidthFixed ==
    \A n \in Allocated :
        (FromFactory(n) /\ origin[n].needle # <<>>)
        => /\ baseDelimiter_Delimiter(n) = origin[n].needle
           /\ delimiter_Len(n) = Len(origin[n].needle)
           /\ length[n] = 0

C9_Witness ==
    \E n \in Allocated :
        /\ FromFactory(n)
        /\ Len(origin[n].needle) >= 1
        /\ greedy[n]
        /\ next[n] = n

====
